---- MODULE Spec2Model ----
(***************************************************************************)
(* A model of the pyopenvr demonstration programs:                         *)
(*   examples/opengl/hello_glfw.py   GlfwApp, OpenVrGlRenderer,            *)
(*                                   ColorCubeActor and the main program   *)
(*   openvr/tracked_devices_actor.py TrackedDeviceMesh, TrackedDevicesActor*)
(* The external libraries (glfw, OpenGL, the OpenVR runtime) are modelled  *)
(* by the state they keep for the program (live object names, the window,  *)
(* the answers they give), their answers being inputs drawn with \E.       *)
(***************************************************************************)
EXTENDS Integers, Sequences, FiniteSets, TLC

VARIABLES
    app,     \* GlfwApp: _is_initialized, window (0 is None)
    glfw,    \* the glfw library: inited, should_close, terminate calls
    rend,    \* OpenVrGlRenderer: vr_system, compositor, texture_id, fb, depth_buffer
    cube,    \* ColorCubeActor: shader, vao (vao_set: the attribute exists)
    gl,      \* OpenGL: the live object names of each kind, and the invalid deletes
    log,     \* the library calls made by the latest GlfwApp.render_scene call
    main,    \* the main program: pc, the exception in flight, frames rendered
    hist,    \* history of the run: calls counted, inputs of the latest call
    actor,   \* TrackedDevicesActor: shader, meshes
    poses,   \* the pose array: bPoseIsValid of each device index
    names,   \* the runtime's Prop_RenderModelName_String of each device index
    call,    \* the TrackedDevicesActor method that is running, and its position
    ctor,    \* the TrackedDeviceMesh constructor that is running or ran last
    mesh,    \* a TrackedDeviceMesh constructed by a client directly
    ahist    \* history of the actor: constructor calls per model name

vars == <<app, glfw, rend, cube, gl, log, main, hist,
          actor, poses, names, call, ctor, mesh, ahist>>

appVars == <<app, glfw, rend, cube, log, main, hist>>
actorVars == <<actor, poses, names, call, ahist>>

----------------------------------------------------------------------------
(* Bounds of the model *)

\* frames the main loop renders before the model stops it
MaxFrames == 3
\* live OpenGL names of one kind a client may leak before the model stops it
MaxLive == 2
\* tracked device indexes 0 .. NumDevices-1, index 0 being the HMD
NumDevices == 3
\* TrackedDeviceMesh constructions counted per model name
MaxCtorCalls == 2

Devices == 0 .. (NumDevices - 1)
ModelNames == {"vr_controller", "lh_basestation"}

NoExc == "none"

----------------------------------------------------------------------------
(* OpenGL object names: glGen* hands out an unused name, glDelete* of 0 is *)
(* ignored, glDelete* of a name that is not live is recorded in gl.bad.    *)

Fresh(live) ==
    CHOOSE n \in 1 .. (Cardinality(live) + 1) :
        n \notin live /\ \A m \in 1 .. (n - 1) : m \in live

GlGen(g, kind) == [g EXCEPT ![kind] = @ \cup {Fresh(@)}]

GlDelete(g, kind, n) ==
    IF n = 0 THEN g
    ELSE IF n \in g[kind] THEN [g EXCEPT ![kind] = @ \ {n}]
    ELSE [g EXCEPT !.bad = @ \cup {<<kind, n>>}]

Raise(w, e) == [w EXCEPT !.exc = e]

Logged(w, c) == [w EXCEPT !.log = Append(@, c)]

----------------------------------------------------------------------------
(* ColorCubeActor *)

\* compileShader and compileProgram raise on failure, before self.shader and
\* self.vao are assigned
ColorCubeActor_init_gl(w, ok) ==
    IF ~ok THEN Raise(w, "RuntimeError")
    ELSE LET g1 == GlGen(w.gl, "prog")
             sh == Fresh(w.gl.prog)
             g2 == GlGen(g1, "vao")
             va == Fresh(g1.vao)
         IN [w EXCEPT !.gl = g2,
                      !.cube = [shader |-> sh, vao |-> va, vao_set |-> TRUE]]

ColorCubeActor_display_gl(w) == Logged(w, "display_gl")

\* self.vao exists only once init_gl has assigned it
ColorCubeActor_dispose_gl(w) ==
    LET g1 == GlDelete(w.gl, "prog", w.cube.shader)
        w1 == [w EXCEPT !.gl = g1, !.cube.shader = 0]
    IN IF ~w.cube.vao_set THEN Raise(w1, "AttributeError")
       ELSE [w1 EXCEPT !.gl = GlDelete(g1, "vao", w.cube.vao), !.cube.vao = 0]

----------------------------------------------------------------------------
(* OpenVrGlRenderer, its actor being a ColorCubeActor *)

OpenVrGlRenderer_init_gl(w, in) ==
    LET w1 == ColorCubeActor_init_gl(w, in.shaders)
        w2 == [w1 EXCEPT !.rend.vr_system = TRUE]
        w3 == [w2 EXCEPT !.rend.compositor = in.compositor]
        g1 == GlGen(w3.gl, "fb")
        g2 == GlGen(g1, "rb")
        g3 == GlGen(g2, "tex")
        w4 == [w3 EXCEPT !.gl = g3,
                         !.rend.fb = Fresh(w3.gl.fb),
                         !.rend.depth_buffer = Fresh(w3.gl.rb),
                         !.rend.texture_id = Fresh(w3.gl.tex)]
    IN IF w1.exc # NoExc THEN w1
       ELSE IF ~in.openvr THEN Raise(w1, "OpenVRError")
       ELSE IF ~in.compositor THEN Raise(w3, "Unable to create compositor")
       ELSE IF ~in.fbComplete THEN Raise(w4, "Incomplete framebuffer")
       ELSE w4

OpenVrGlRenderer_display_gl(w) == ColorCubeActor_display_gl(w)

\* the textures are submitted before the actor is rendered into them
OpenVrGlRenderer_render_scene_SubmitFirst(w, hmdValid) ==
    LET w1 == [Logged(w, "waitGetPoses") EXCEPT !.rend.hmd_valid = hmdValid]
        w2 == Logged(Logged(w1, "submit_left"), "submit_right")
        w3 == OpenVrGlRenderer_display_gl(w2)
        w4 == OpenVrGlRenderer_display_gl(w3)
    IN IF ~hmdValid THEN w1 ELSE w4

OpenVrGlRenderer_render_scene(w, hmdValid) ==
    LET w1 == [Logged(w, "waitGetPoses") EXCEPT !.rend.hmd_valid = hmdValid]
        w2 == OpenVrGlRenderer_display_gl(w1)
        w3 == OpenVrGlRenderer_display_gl(w2)
        w4 == Logged(Logged(w3, "submit_left"), "submit_right")
    IN IF ~hmdValid THEN w1 ELSE w4

OpenVrGlRenderer_dispose_gl(w) ==
    LET w1 == ColorCubeActor_dispose_gl(w)
        w2 == [w1 EXCEPT !.rend.vr_system = FALSE]
        g1 == GlDelete(w2.gl, "tex", w2.rend.texture_id)
        g2 == GlDelete(g1, "rb", w2.rend.depth_buffer)
        g3 == GlDelete(g2, "fb", w2.rend.fb)
    IN IF w1.exc # NoExc THEN w1
       ELSE [w2 EXCEPT !.gl = g3, !.rend.fb = 0]

----------------------------------------------------------------------------
(* GlfwApp *)

\* a glfw call that takes self.window
UseWindow(w, c) ==
    [Logged(w, c) EXCEPT !.hist.nullUse = @ \/ (w.app.window = 0)]

GlfwTerminate(w) ==
    [w EXCEPT !.glfw.inited = FALSE, !.hist.terminates = @ + 1]

\* _is_initialized is set before the renderer is initialized
GlfwApp_init_gl_EarlyFlag(w, in) ==
    LET w1 == [w EXCEPT !.glfw.inited = TRUE]
        w2 == [w1 EXCEPT !.app.window = IF in.window THEN w.hist.createWindow + 1 ELSE 0,
                         !.hist.createWindow = @ + 1]
        w3 == UseWindow(UseWindow(w2, "set_key_callback"), "make_context_current")
        w4 == OpenVrGlRenderer_init_gl([w3 EXCEPT !.hist.rendererInit = @ + 1,
                                                  !.app.is_initialized = TRUE], in)
    IN IF w.app.is_initialized THEN w
       ELSE IF ~in.glfwInit THEN Raise(w, "GLFW Initialization error")
       ELSE IF ~in.window THEN Raise(GlfwTerminate(w2), "GLFW window creation error")
       ELSE w4

\* the 'only initialize once' test is missing
GlfwApp_init_gl_NoGuard(w, in) ==
    LET w1 == [w EXCEPT !.glfw.inited = TRUE]
        w2 == [w1 EXCEPT !.app.window = IF in.window THEN w.hist.createWindow + 1 ELSE 0,
                         !.hist.createWindow = @ + 1]
        w3 == UseWindow(UseWindow(w2, "set_key_callback"), "make_context_current")
        w4 == OpenVrGlRenderer_init_gl([w3 EXCEPT !.hist.rendererInit = @ + 1], in)
    IN IF ~in.glfwInit THEN Raise(w, "GLFW Initialization error")
       ELSE IF ~in.window THEN Raise(GlfwTerminate(w2), "GLFW window creation error")
       ELSE IF w4.exc # NoExc THEN w4
       ELSE [w4 EXCEPT !.app.is_initialized = TRUE]

GlfwApp_init_gl(w, in) ==
    LET w1 == [w EXCEPT !.glfw.inited = TRUE]
        w2 == [w1 EXCEPT !.app.window = IF in.window THEN w.hist.createWindow + 1 ELSE 0,
                         !.hist.createWindow = @ + 1]
        w3 == UseWindow(UseWindow(w2, "set_key_callback"), "make_context_current")
        w4 == OpenVrGlRenderer_init_gl([w3 EXCEPT !.hist.rendererInit = @ + 1], in)
    IN IF w.app.is_initialized THEN w
       ELSE IF ~in.glfwInit THEN Raise(w, "GLFW Initialization error")
       ELSE IF ~in.window THEN Raise(GlfwTerminate(w2), "GLFW window creation error")
       ELSE IF w4.exc # NoExc THEN w4
       ELSE [w4 EXCEPT !.app.is_initialized = TRUE]

\* key_callback runs inside poll_events when ESCAPE was pressed
GlfwApp_key_callback(w, esc) ==
    IF esc THEN [w EXCEPT !.glfw.should_close = TRUE] ELSE w

GlfwApp_render_scene(w, in) ==
    LET w0 == [w EXCEPT !.log = << >>,
                        !.hist.inp = in,
                        !.hist.initRan = ~w.app.is_initialized]
        w1 == GlfwApp_init_gl(w0, in)
        w2 == UseWindow(w1, "make_context_current")
        w3 == OpenVrGlRenderer_render_scene(w2, in.hmdValid)
        w4 == UseWindow(w3, "swap_buffers")
        w5 == GlfwApp_key_callback(Logged(w4, "poll_events"), in.esc)
    IN IF w1.exc # NoExc THEN w1 ELSE w5

GlfwApp_dispose_gl(w) ==
    LET w1 == OpenVrGlRenderer_dispose_gl([w EXCEPT !.hist.rendDispose = TRUE])
        w2 == IF w.app.window # 0 THEN w1 ELSE w
    IN IF w2.exc # NoExc THEN w2
       ELSE [GlfwTerminate(w2) EXCEPT !.app.is_initialized = FALSE,
                                      !.hist.disposeDone = TRUE]

\* the 'with' block is left: __exit__ calls dispose_gl; an exception of dispose_gl
\* replaces the one in flight
GlfwApp_exit(w) == GlfwApp_dispose_gl([w EXCEPT !.exc = NoExc])

----------------------------------------------------------------------------
(* The main program: with GlfwApp(renderer0, ...) as glfwApp: glfwApp.run_loop() *)

World == [app |-> app, glfw |-> glfw, rend |-> rend, cube |-> cube, gl |-> gl,
          log |-> log, hist |-> hist, exc |-> main.exc]

Inputs == [glfwInit : BOOLEAN, window : BOOLEAN, shaders : BOOLEAN, openvr : BOOLEAN,
           compositor : BOOLEAN, fbComplete : BOOLEAN, hmdValid : BOOLEAN, esc : BOOLEAN]

AllOk == [glfwInit |-> TRUE, window |-> TRUE, shaders |-> TRUE, openvr |-> TRUE,
          compositor |-> TRUE, fbComplete |-> TRUE, hmdValid |-> TRUE, esc |-> FALSE]

Becomes(w) ==
    /\ app' = w.app
    /\ glfw' = w.glfw
    /\ rend' = w.rend
    /\ cube' = w.cube
    /\ gl' = w.gl
    /\ log' = w.log
    /\ hist' = w.hist

\* run_loop's condition glfw.window_should_close(self.window). With self.window
\* None the call is given a null window: the library answers 0 or reports an error
\* that the binding raises.
RunLoopCheck ==
    /\ main.pc = "loop"
    /\ \E answer \in {"false", "true", "raise"} :
          /\ IF app.window = 0 THEN answer \in {"false", "raise"}
             ELSE answer = (IF glfw.should_close THEN "true" ELSE "false")
          /\ main' = [main EXCEPT !.pc = IF answer = "false" THEN "render" ELSE "exit",
                                  !.exc = IF answer = "raise" THEN "GLFWError" ELSE NoExc]
    /\ hist' = [hist EXCEPT !.nullUse = @ \/ (app.window = 0)]
    /\ UNCHANGED <<app, glfw, rend, cube, gl, log>>
    /\ UNCHANGED <<actorVars, ctor, mesh>>

RenderScene ==
    /\ main.pc = "render"
    /\ main.frames < MaxFrames
    /\ \E in \in Inputs :
          LET w == GlfwApp_render_scene(World, in)
          IN /\ Becomes(w)
             /\ main' = [pc |-> IF w.exc # NoExc THEN "exit" ELSE "loop",
                         exc |-> w.exc,
                         frames |-> main.frames + 1]
    /\ UNCHANGED <<actorVars, ctor, mesh>>

Exit ==
    /\ main.pc = "exit"
    /\ LET w == GlfwApp_exit(World)
       IN /\ Becomes(w)
          /\ main' = [main EXCEPT !.pc = "done",
                                  !.exc = IF w.exc # NoExc THEN w.exc ELSE main.exc]
    /\ UNCHANGED <<actorVars, ctor, mesh>>

----------------------------------------------------------------------------
(* TrackedDeviceMesh: the constructor polls loadRenderModel_Async, so it is *)
(* modelled in steps: ctor.pc is "call" before each loadRenderModel_Async   *)
(* call and "sleep" inside time.sleep(1).                                   *)

ActorWorld == [actor |-> actor, gl |-> gl, call |-> call, ctor |-> ctor,
               mesh |-> mesh, ahist |-> ahist]

\* EVRRenderModelError: success, still loading, and two of the errors
Answers == {"None", "Loading", "NotSupported", "InvalidModel"}

CtorRunning(c) == c.pc \in {"call", "sleep"}

\* the loop is left on the answer Loading instead of on the others
LoopExits_Inverted(error) == error = "Loading"

\* line 32: if error != openvr.VRRenderModelError_Loading: break
LoopExits(error) == error # "Loading"

\* lines 24-29: the constructor up to its first loadRenderModel_Async call
TrackedDeviceMesh_new(aw, model_name, caller, i) ==
    [aw EXCEPT !.gl = GlGen(aw.gl, "buf"),
               !.ctor = [pc |-> "call", model_name |-> model_name,
                         vbo |-> Fresh(aw.gl.buf), error |-> "None",
                         caller |-> caller, i |-> i,
                         valid |-> (caller = "actor" /\ poses[i])]]

\* lines 35-55: the object the constructor leaves; the model is None unless the
\* load succeeded
TrackedDeviceMesh_built(c) ==
    [model_name |-> c.model_name, vbo |-> c.vbo, acq |-> c.vbo,
     has_model |-> (c.error = "None")]

TrackedDeviceMesh_dispose_gl(g, m) == GlDelete(g, "buf", m.vbo)

----------------------------------------------------------------------------
(* TrackedDevicesActor *)

\* line 99: for i in range(1, len(self.poses))
FirstDevice == 1

\* the test 'not model_name in self.meshes' is missing
NeedsMesh_NoLookup(aw, i) == poses[i]

\* the test 'not pose.bPoseIsValid' is missing
NeedsMesh_IgnoresValidity(aw, i) == names[i] \notin DOMAIN aw.actor.meshes

\* lines 100-104: device i gets a mesh constructed
NeedsMesh(aw, i) == poses[i] /\ names[i] \notin DOMAIN aw.actor.meshes

RECURSIVE NextNeeding(_, _)
NextNeeding(aw, i) ==
    IF i >= NumDevices THEN NumDevices
    ELSE IF NeedsMesh(aw, i) THEN i
    ELSE NextNeeding(aw, i + 1)

\* lines 152-160: the devices display_gl draws
Drawn(aw) ==
    {i \in FirstDevice .. (NumDevices - 1) :
        poses[i] /\ names[i] \in DOMAIN aw.actor.meshes}

\* what follows _check_devices in the method that called it: glEnable in init_gl,
\* the draw calls for Drawn(aw) in display_gl; neither changes the actor
AfterCheck(aw) == [aw EXCEPT !.call.op = "none"]

\* _check_devices from device i on, up to the next constructor call
TrackedDevicesActor_check_devices(aw, i) ==
    LET j == NextNeeding(aw, i)
        aw1 == [aw EXCEPT !.ahist.ctorCalls[names[j]] = @ + 1]
    IN IF j >= NumDevices THEN AfterCheck(aw)
       ELSE TrackedDeviceMesh_new(aw1, names[j], "actor", j)

ABecomes(aw) ==
    /\ actor' = aw.actor
    /\ gl' = aw.gl
    /\ call' = aw.call
    /\ ctor' = aw.ctor
    /\ mesh' = aw.mesh
    /\ ahist' = aw.ahist

Idle == call.op = "none" /\ ~CtorRunning(ctor)

CallsLeft == \A n \in ModelNames : ahist.ctorCalls[n] < MaxCtorCalls

TrackedDevicesActor_init_gl ==
    /\ Idle
    /\ CallsLeft
    /\ Cardinality(gl.prog) < MaxLive
    /\ \E ok \in BOOLEAN :
          IF ~ok THEN ABecomes([ActorWorld EXCEPT !.call.exc = "RuntimeError"])
          ELSE ABecomes(TrackedDevicesActor_check_devices(
                   [ActorWorld EXCEPT !.gl = GlGen(gl, "prog"),
                                      !.actor.shader = Fresh(gl.prog),
                                      !.call = [op |-> "init_gl", exc |-> NoExc]],
                   FirstDevice))
    /\ UNCHANGED <<appVars, poses, names>>

TrackedDevicesActor_display_gl ==
    /\ Idle
    /\ CallsLeft
    /\ ABecomes(TrackedDevicesActor_check_devices(
           [ActorWorld EXCEPT !.call = [op |-> "display_gl", exc |-> NoExc]],
           FirstDevice))
    /\ UNCHANGED <<appVars, poses, names>>

\* lines 162-167. The loop deletes from the dictionary it iterates: an interpreter
\* with dict.iteritems raises RuntimeError at the step after the first deletion,
\* one without it raises AttributeError before the first.
TrackedDevicesActor_dispose_gl ==
    /\ Idle
    /\ LET g1 == GlDelete(gl, "prog", actor.shader)
           aw1 == [ActorWorld EXCEPT !.gl = g1, !.actor.shader = 0,
                                     !.call = [op |-> "none", exc |-> NoExc],
                                     !.ahist.ctorCalls = [n \in ModelNames |-> 0]]
       IN \E iteritems \in BOOLEAN :
             IF ~iteritems THEN ABecomes([aw1 EXCEPT !.call.exc = "AttributeError"])
             ELSE IF DOMAIN actor.meshes = {} THEN ABecomes(aw1)
             ELSE \E key \in DOMAIN actor.meshes :
                     ABecomes([aw1 EXCEPT
                         !.gl = TrackedDeviceMesh_dispose_gl(g1, actor.meshes[key]),
                         !.actor.meshes = [k \in DOMAIN actor.meshes \ {key} |->
                                              actor.meshes[k]],
                         !.call.exc = "RuntimeError"])
    /\ UNCHANGED <<appVars, poses, names>>

\* the constructor's frame once it has returned
CtorDone(c) ==
    [pc |-> "done", model_name |-> "", vbo |-> 0, error |-> c.error,
     caller |-> "none", i |-> 0, valid |-> FALSE]

\* lines 31-34: one loadRenderModel_Async call and the test of its answer; at a
\* loop exit the rest of the constructor runs and its caller goes on
LoadAnswer(answer) ==
    /\ ctor.pc = "call"
    /\ LET c1 == [ctor EXCEPT !.error = answer]
           m == TrackedDeviceMesh_built(c1)
           aw1 == [ActorWorld EXCEPT !.ctor = CtorDone(c1)]
       IN IF ~LoopExits(answer)
          THEN ABecomes([ActorWorld EXCEPT !.ctor = [c1 EXCEPT !.pc = "sleep"]])
          ELSE IF ctor.caller = "actor"
          THEN ABecomes(TrackedDevicesActor_check_devices(
                   [aw1 EXCEPT !.actor.meshes =
                       [k \in DOMAIN actor.meshes \cup {m.model_name} |->
                           IF k = m.model_name THEN m ELSE actor.meshes[k]]],
                   ctor.i + 1))
          ELSE ABecomes([aw1 EXCEPT !.mesh = m])
    /\ UNCHANGED <<appVars, poses, names>>

LoadCall == \E answer \in Answers : LoadAnswer(answer)

\* line 34: time.sleep(1) returns
Sleep ==
    /\ ctor.pc = "sleep"
    /\ ctor' = [ctor EXCEPT !.pc = "call"]
    /\ UNCHANGED <<appVars, actor, gl, call, mesh, ahist, poses, names>>

\* hello_glfw.py line 149: compositor.waitGetPoses fills the pose array, between
\* the actor's calls
WaitGetPoses ==
    /\ Idle
    /\ \E p \in [Devices -> BOOLEAN] : poses' = p
    /\ UNCHANGED <<appVars, actor, gl, call, ctor, mesh, ahist, names>>

\* the runtime's answer to getStringTrackedDeviceProperty changes (a device is
\* replaced); the code never asks for the name of device 0
NameChanged ==
    /\ \E i \in FirstDevice .. (NumDevices - 1), n \in ModelNames :
          /\ names[i] # n
          /\ names' = [names EXCEPT ![i] = n]
    /\ UNCHANGED <<appVars, actor, gl, call, ctor, mesh, ahist, poses>>

----------------------------------------------------------------------------
(* A client that calls init_gl and dispose_gl of the resource objects, and  *)
(* constructs and disposes a TrackedDeviceMesh, in any order. main.exc is   *)
(* the exception of its latest call.                                        *)

RendererInputs ==
    {in \in Inputs : in.glfwInit /\ in.window /\ in.hmdValid /\ ~in.esc}

ClientCall(c) == [World EXCEPT !.exc = NoExc, !.hist.lastCall = c]

ClientReturns(w) ==
    /\ Becomes(w)
    /\ main' = [main EXCEPT !.exc = w.exc]
    /\ UNCHANGED <<actorVars, ctor, mesh>>

MayAllocate(kinds) == \A k \in kinds : Cardinality(gl[k]) < MaxLive

Client_OpenVrGlRenderer_init_gl ==
    /\ ~CtorRunning(ctor)
    /\ MayAllocate({"fb", "rb", "tex", "prog", "vao"})
    /\ \E in \in RendererInputs :
          ClientReturns(OpenVrGlRenderer_init_gl(ClientCall("OpenVrGlRenderer.init_gl"), in))

Client_OpenVrGlRenderer_dispose_gl ==
    /\ ~CtorRunning(ctor)
    /\ ClientReturns(OpenVrGlRenderer_dispose_gl(ClientCall("OpenVrGlRenderer.dispose_gl")))

Client_ColorCubeActor_init_gl ==
    /\ ~CtorRunning(ctor)
    /\ MayAllocate({"prog", "vao"})
    /\ \E ok \in BOOLEAN :
          ClientReturns(ColorCubeActor_init_gl(ClientCall("ColorCubeActor.init_gl"), ok))

Client_ColorCubeActor_dispose_gl ==
    /\ ~CtorRunning(ctor)
    /\ ClientReturns(ColorCubeActor_dispose_gl(ClientCall("ColorCubeActor.dispose_gl")))

Client_TrackedDeviceMesh_new ==
    /\ ~CtorRunning(ctor)
    /\ MayAllocate({"buf"})
    /\ \E model_name \in ModelNames :
          ABecomes(TrackedDeviceMesh_new(ActorWorld, model_name, "client", 0))
    /\ hist' = [hist EXCEPT !.lastCall = "TrackedDeviceMesh"]
    /\ main' = [main EXCEPT !.exc = NoExc]
    /\ UNCHANGED <<app, glfw, rend, cube, log, poses, names>>

\* lines 82-84, on the mesh the client holds
Client_TrackedDeviceMesh_dispose_gl ==
    /\ ~CtorRunning(ctor)
    /\ mesh.acq # 0
    /\ gl' = TrackedDeviceMesh_dispose_gl(gl, mesh)
    /\ mesh' = [mesh EXCEPT !.vbo = 0]
    /\ hist' = [hist EXCEPT !.lastCall = "TrackedDeviceMesh.dispose_gl"]
    /\ main' = [main EXCEPT !.exc = NoExc]
    /\ UNCHANGED <<app, glfw, rend, cube, log, actorVars, ctor>>

----------------------------------------------------------------------------
(* Initial state: the objects as their constructors leave them *)

Init ==
    /\ app = [is_initialized |-> FALSE, window |-> 0]
    /\ glfw = [inited |-> FALSE, should_close |-> FALSE]
    /\ rend = [vr_system |-> FALSE, compositor |-> FALSE, texture_id |-> 0,
               fb |-> 0, depth_buffer |-> 0, hmd_valid |-> FALSE]
    /\ cube = [shader |-> 0, vao |-> 0, vao_set |-> FALSE]
    /\ gl = [fb |-> {}, rb |-> {}, tex |-> {}, prog |-> {}, vao |-> {}, buf |-> {},
             bad |-> {}]
    /\ log = << >>
    /\ main = [pc |-> "loop", exc |-> NoExc, frames |-> 0]
    /\ hist = [createWindow |-> 0, rendererInit |-> 0, terminates |-> 0,
               nullUse |-> FALSE, rendDispose |-> FALSE, disposeDone |-> FALSE,
               inp |-> AllOk, initRan |-> FALSE, lastCall |-> "none"]
    /\ actor = [shader |-> 0, meshes |-> << >>]
    /\ poses = [i \in Devices |-> FALSE]
    /\ names = [i \in Devices |-> "vr_controller"]
    /\ call = [op |-> "none", exc |-> NoExc]
    /\ ctor = [pc |-> "none", model_name |-> "", vbo |-> 0, error |-> "None",
               caller |-> "none", i |-> 0, valid |-> FALSE]
    /\ mesh = [model_name |-> "", vbo |-> 0, acq |-> 0, has_model |-> FALSE]
    /\ ahist = [ctorCalls |-> [n \in ModelNames |-> 0]]

\* the main program of hello_glfw.py
NextApp == RunLoopCheck \/ RenderScene \/ Exit

SpecApp == Init /\ [][NextApp]_vars

\* a client of TrackedDevicesActor, and the runtime around it
NextActor ==
    \/ TrackedDevicesActor_init_gl
    \/ TrackedDevicesActor_display_gl
    \/ TrackedDevicesActor_dispose_gl
    \/ LoadCall
    \/ Sleep
    \/ WaitGetPoses
    \/ NameChanged

SpecActor == Init /\ [][NextActor]_vars

\* a client of TrackedDeviceMesh alone
NextMesh ==
    \/ Client_TrackedDeviceMesh_new
    \/ Client_TrackedDeviceMesh_dispose_gl
    \/ LoadCall
    \/ Sleep

SpecMesh == Init /\ [][NextMesh]_vars

\* time.sleep returns, and the runtime's answer is not Loading for ever
FairMesh ==
    /\ SpecMesh
    /\ WF_vars(Sleep)
    /\ SF_vars(\E answer \in Answers \ {"Loading"} : LoadAnswer(answer))

\* a client of the three kinds of resource objects
NextRes ==
    \/ Client_OpenVrGlRenderer_init_gl
    \/ Client_OpenVrGlRenderer_dispose_gl
    \/ Client_ColorCubeActor_init_gl
    \/ Client_ColorCubeActor_dispose_gl
    \/ Client_TrackedDeviceMesh_new
    \/ Client_TrackedDeviceMesh_dispose_gl
    \/ LoadCall
    \/ Sleep

SpecRes == Init /\ [][NextRes]_vars

----------------------------------------------------------------------------
(* Properties *)

FrameCalls == {"waitGetPoses", "display_gl", "submit_left", "submit_right",
               "swap_buffers"}

IsFrameCall(c) == c \in FrameCalls

\* the fetch, render, submit and swap calls of the latest render_scene call
FrameSteps == SelectSeq(log, IsFrameCall)

RECURSIVE Dedup(_)
\* a sequence without its immediate repetitions
Dedup(q) ==
    IF Len(q) <= 1 THEN q
    ELSE IF q[1] = q[2] THEN Dedup(Tail(q))
    ELSE <<q[1]>> \o Dedup(Tail(q))

\* the latest render_scene call returned
FrameDone == Len(log) > 0 /\ log[Len(log)] = "poll_events"

FullFrame == <<"waitGetPoses", "display_gl", "submit_left", "submit_right",
               "swap_buffers">>

\* C1, as stated: every frame of an initialized app fetches the poses, renders the
\* actor, submits to the compositor (left eye, right eye) and swaps the buffers, in
\* this order, skipping none.
EveryFrameAllSteps == FrameDone => Dedup(FrameSteps) = FullFrame

\* C1, amended: every frame fetches the poses first and swaps the buffers last; it
\* renders and submits in between, in this order, when the HMD pose is valid, and
\* renders nothing and submits nothing when it is not.
FrameStepsByHmdPose ==
    FrameDone =>
        Dedup(FrameSteps) = IF rend.hmd_valid THEN FullFrame
                            ELSE <<"waitGetPoses", "swap_buffers">>

\* a frame after the first, rendered while the HMD pose was not valid
FrameWithInvalidHmdPose ==
    FrameDone /\ main.frames >= 2 /\ ~rend.hmd_valid /\ app.is_initialized

Preserved ==
    \A k \in DOMAIN actor.meshes :
        k \in DOMAIN actor.meshes' /\ actor.meshes'[k] = actor.meshes[k]

\* C2, as stated: no step of the actor, dispose_gl included, removes or replaces an
\* entry of the meshes dictionary.
NoEviction == [][Preserved]_vars

\* C2, amended: every step other than dispose_gl (init_gl, display_gl and the
\* _check_devices they run) keeps every entry of the meshes dictionary, with the
\* same mesh; dispose_gl is the one operation that deletes entries.
NoEvictionBeforeDispose == [][TrackedDevicesActor_dispose_gl \/ Preserved]_vars

\* both model names are cached: the first entry outlived the load of the second
TwoEntriesCached == Idle /\ DOMAIN actor.meshes = ModelNames

\* C3, as stated: after any sequence of init and dispose calls, a completed
\* dispose_gl leaves none of the object's handles allocated, and no handle is
\* released that is not allocated (never acquired, or released before).
LifetimesMirrorInitDispose ==
    /\ gl.bad = {}
    /\ (hist.lastCall = "OpenVrGlRenderer.dispose_gl" /\ main.exc = NoExc)
           => (gl.fb = {} /\ gl.rb = {} /\ gl.tex = {})
    /\ (hist.lastCall \in {"OpenVrGlRenderer.dispose_gl", "ColorCubeActor.dispose_gl"}
           /\ main.exc = NoExc)
           => (gl.prog = {} /\ gl.vao = {})
    /\ (hist.lastCall = "TrackedDeviceMesh.dispose_gl") => mesh.acq \notin gl.buf

\* C4: the constructor sleeps only on the answer Loading and calls again after the
\* sleep, has left the loop only on another answer, and, the runtime answering
\* something else than Loading in the end, terminates.
LoadLoopRetriesUntilAnswered ==
    /\ [](ctor.pc = "sleep" => ctor.error = "Loading")
    /\ [](ctor.pc = "done" => ctor.error # "Loading")
    /\ [][ctor.pc = "sleep" => ctor'.pc \in {"sleep", "call"}]_vars
    /\ (CtorRunning(ctor) ~> ctor.pc = "done")

\* the constructor is about to call loadRenderModel_Async again, after the answer
\* Loading and a sleep
LoadRetried == ctor.pc = "call" /\ ctor.error = "Loading"

InitFailed(in) == ~in.glfwInit \/ ~in.window \/ ~in.compositor \/ ~in.fbComplete

\* C5: when the render_scene call that runs the initialization meets a failing
\* glfw.init, no window, no compositor or an incomplete framebuffer, an exception
\* is raised, _is_initialized stays False, and the call has rendered nothing,
\* submitted nothing and swapped no buffers.
InitFailureRaises ==
    (hist.initRan /\ InitFailed(hist.inp)) =>
        /\ main.exc # NoExc
        /\ ~app.is_initialized
        /\ FrameSteps = << >>

\* the first render_scene call found the framebuffer incomplete, all else being well
IncompleteFramebufferRaised ==
    /\ main.pc = "exit"
    /\ hist.initRan
    /\ hist.inp = [AllOk EXCEPT !.fbComplete = FALSE]
    /\ main.exc = "Incomplete framebuffer"

\* C6, as stated: every glfw call that takes self.window is made after the window
\* was created, the first loop-condition check of run_loop included.
WindowExistsWhenUsed == ~hist.nullUse

\* C7, as stated: when the 'with' block has been left, dispose_gl has run to
\* completion: the renderer was disposed if a window was created, glfw.terminate
\* was called, and _is_initialized is False.
CleanupGuaranteed ==
    main.pc = "done" =>
        /\ hist.disposeDone
        /\ (app.window # 0 => hist.rendDispose)
        /\ hist.terminates >= 1
        /\ ~app.is_initialized

LoadsOncePerName ==
    /\ \A n \in ModelNames : ahist.ctorCalls[n] <= 1
    /\ (CtorRunning(ctor) /\ ctor.caller = "actor") => (ctor.i >= 1 /\ ctor.valid)
    /\ \A n \in DOMAIN actor.meshes : actor.meshes[n].model_name = n

\* all poses valid, the HMD's too; two devices of the same model name are drawn
\* from the one entry that one constructor call made
SharedEntry ==
    /\ Idle
    /\ \A i \in Devices : poses[i]
    /\ names[1] = names[2]
    /\ Drawn(ActorWorld) = {1, 2}
    /\ DOMAIN actor.meshes = {names[1]}
    /\ ahist.ctorCalls[names[1]] = 1

====
